---- MODULE Spec2Model ----
(***************************************************************************)
(* Model of cloud.py: a GitHub e-mail scouting pipeline.  main() fetches   *)
(* source records from Airtable and runs process_record on each of them in *)
(* a thread pool; every worker shares one GitHubApiHandler (credential      *)
(* rotator).  Every HTTP call is a step of its worker whose response is    *)
(* chosen by the environment: status 200, a non-200 status, or an          *)
(* exception raised by the requests library.                               *)
(***************************************************************************)
EXTENDS Integers, Sequences, FiniteSets, TLC

(* ----------------------------- bounds ---------------------------------- *)
\* number of rows of the source table (records the fetch can return)
NumRecords == 2
\* largest number of credentials in github_api_keys.txt
MaxKeys == 2
\* longest run of characters put before and after an e-mail-shaped core
MaxAffix == 2
\* largest number of HTTP calls of the tasks that are answered with a non-200
\* status or end in an exception, over one run
MaxFaults == 1

(* ------------------------- program constants --------------------------- *)
\* ThreadPoolExecutor(max_workers=10)
max_workers == 10
\* if remaining_requests < 10
LowQuota == 10

Rows == 1..NumRecords

\* Python's None, as a value comparable with the character sequences
None == <<"None">>
\* the empty string ''
EmptyStr == << >>

\* status codes the environment answers with: 200 and one non-200 (the body
\* of a non-200 answer of GitHub holds no user data)
Statuses == {200, 404}
\* rate['remaining'] values reported by GET /rate_limit: both sides of the threshold
Remaining == {9, 10}

\* the `email` field of a user's public profile ('' stands for '' and null);
\* a user who shows an address shows the one their README gives
ProfileEmails == {EmptyStr, <<"j", "@", "e", ".", "c", "o">>}

VARIABLES
    api_keys,           \* GitHubApiHandler.api_keys: the credential list
    current_key_index,  \* GitHubApiHandler.current_key_index (0-based)
    request_count,      \* GitHubApiHandler.request_count
    table,              \* the source table in Airtable: row id -> fields
    target,             \* the target table: the records created in it
    records,            \* main's `records`: the fetched list
    mpc,                \* main's position
    submitted,          \* number of records already handed to executor.submit
    collected,          \* futures whose result main has retrieved
    caught,             \* futures whose exception main has caught and printed
    pc,                 \* each task's position in process_record
    rem,                \* per task: the probe of check_and_switch_key in hand: the answer's
                        \* status, remaining_requests, and the index get_headers sent it under
    tmp,                \* per task: value loaded by a read-modify-write in progress
    email,              \* per task: the lookup's result
    lookup,             \* per task: status codes of the lookup's two content fetches
    history,            \* per row: the values its Status field has held, in order
    patches,            \* per task: PATCH requests answered, in order, with the answer
    posts,              \* per task: POST requests answered, in order, with the answer
    text,               \* extract_email's argument (the extractor on its own)
    matched,            \* extract_email's return value (the extractor on its own)
    faults              \* HTTP calls of the tasks answered non-200 or raised so far

vars == <<api_keys, current_key_index, request_count, table, target, records,
          mpc, submitted, collected, caught, pc, rem, tmp, email,
          lookup, history,          patches, posts, text, matched, faults>>

handler == <<api_keys, current_key_index, request_count>>
driver == <<records, mpc, submitted, collected, caught>>
airtable == <<table, target, history, patches, posts>>
locals == <<rem, tmp, email, lookup>>
extractor == <<text, matched>>
http == <<extractor, faults>>

(* ------------------------------ data ----------------------------------- *)
\* values of the GitHub field of a source row ('' also stands for a missing field)
GitHubValues == {"", "octocat"}
\* values of the Status field of a source row ('' also stands for a missing field)
StatusValues == {"Run", "Done"}

\* a source row as Airtable stores it
Row(i, gh, st) ==
    [id |-> i, Name |-> i, GitHub |-> gh, Status |-> st,
     ScoutedEmail |-> EmptyStr, RepoToLink |-> i]

\* README.md bodies the raw-content fetch can answer with
ReadmeTexts ==
    { << >>,
      <<"h", "i">>,
      <<"<", "j", "@", "e", ".", "c", "o", ">">> }

\* no content fetch issued yet (0: not issued)
NoLookup == [profile |-> 0, profile_email |-> EmptyStr, readme |-> 0]
\* no rate-limit probe in hand
NoProbe == [status_code |-> 0, remaining |-> 0, key |-> 0]

\* Python truthiness of `email`: None and '' are falsy
Truthy(e) == e # None /\ e # EmptyStr

(* ----------------------------- extract_email -------------------------- *)
\* Texts are sequences of one-character strings.  The character classes of
\* pattern = r'\b[A-Za-z0-9._%+-]+@[A-Za-z0-9.-]+\.[A-Z|a-z]{2,}\b'
Letters == {"a", "b", "c", "e", "h", "i", "j", "o", "p", "x"}
Digits == {"0", "1"}
\* \w, which decides \b
WordChars == Letters \cup Digits \cup {"_"}
\* [A-Za-z0-9._%+-]
LocalChars == Letters \cup Digits \cup {".", "_", "%", "+", "-"}
\* [A-Za-z0-9.-]
DomainChars == Letters \cup Digits \cup {".", "-"}
\* [A-Z|a-z]: the bar is a member of the class
TldChars == Letters \cup {"|"}
\* the argument of strip: '"<>[]()'
StripChars == {"\"", "<", ">", "[", "]", "(", ")"}

Max(S) == CHOOSE m \in S : \A k \in S : k <= m
Min(S) == CHOOSE m \in S : \A k \in S : m <= k

IsWordAt(t, k) == k \in 1..Len(t) /\ t[k] \in WordChars
\* \b just before position p
Boundary(t, p) == IsWordAt(t, p - 1) # IsWordAt(t, p)

\* last position of the longest run of Class characters starting at s (s-1: none)
RunEnd(t, s, Class) ==
    LET ends == {i \in s..Len(t) : \A k \in s..i : t[k] \in Class}
    IN  IF ends = {} THEN s - 1 ELSE Max(ends)

\* The match the backtracking matcher finds when started at s, as its last
\* position, or 0.  The local part is the whole run of local characters (it
\* must be followed by "@", which is no local character); the domain is tried
\* longest first, and for each domain the top-level segment longest first.
MatchEnd(t, s) ==
    IF ~Boundary(t, s) THEN 0
    ELSE LET le == RunEnd(t, s, LocalChars)
         IN  IF le < s \/ le + 1 > Len(t) THEN 0
             ELSE IF t[le + 1] # "@" THEN 0
             ELSE LET a == le + 1
                      de == RunEnd(t, a + 1, DomainChars)
                      TldEnds(j) ==
                          {e \in (j + 3)..Len(t) :
                              /\ \A k \in (j + 2)..e : t[k] \in TldChars
                              /\ Boundary(t, e + 1)}
                      js == {j \in (a + 1)..de :
                                /\ j + 1 <= Len(t)
                                /\ t[j + 1] = "."
                                /\ TldEnds(j) # {}}
                  IN  IF js = {} THEN 0 ELSE Max(TldEnds(Max(js)))

\* str.strip(chars): leading and trailing characters of the set removed
Strip(u, chars) ==
    LET keep == {k \in 1..Len(u) : u[k] \notin chars}
    IN  IF keep = {} THEN << >> ELSE SubSeq(u, Min(keep), Max(keep))

\* extract_email: re.findall's first match, stripped; None without a match
extract_email(t) ==
    LET starts == {s \in 1..Len(t) : MatchEnd(t, s) > 0}
    IN  IF starts = {} THEN None
        ELSE Strip(SubSeq(t, Min(starts), MatchEnd(t, Min(starts))), StripChars)

(* --------------------------- pure functions ---------------------------- *)
\* mutant: the guard tests the status alone
EligibleStatusOnly(record) == record.Status = "Run"

\* process_record: if github_url and status == 'Run'
Eligible(record) == record.GitHub # "" /\ record.Status = "Run"

\* mutant: the threshold itself already switches
ShouldSwitchAtThreshold(remaining_requests) == remaining_requests <= LowQuota

\* check_and_switch_key: if remaining_requests < 10
ShouldSwitch(remaining_requests) == remaining_requests < LowQuota

\* mutant: the index advances without wrapping
NextKeyIndexNoWrap(index, keys) == index + 1

\* check_and_switch_key: (self.current_key_index + 1) % len(self.api_keys)
NextKeyIndex(index, keys) == (index + 1) % Len(keys)

\* mutant: the body's figure is returned whatever the status
get_remaining_requests_any_status(status_code, remaining) == remaining

\* get_remaining_requests: rate['remaining'] on 200, else 0
get_remaining_requests(status_code, remaining) ==
    IF status_code = 200 THEN remaining ELSE 0

\* mutant: the profile's e-mail is ignored, the README is always fetched
ProfileOutcomeReadmeFirst(status_code, profile_email) ==
    IF status_code # 200 THEN [readme |-> FALSE, email |-> None]
    ELSE [readme |-> TRUE, email |-> None]

\* mutant: the status of the profile fetch is not looked at
ProfileOutcomeAnyStatus(status_code, profile_email) ==
    IF Truthy(profile_email) THEN [readme |-> FALSE, email |-> profile_email]
    ELSE [readme |-> TRUE, email |-> None]

\* get_user_info_from_github_api after the profile fetch: None on a non-200,
\* else the profile's e-mail when it is truthy; "readme" stands for the call
\* of get_email_from_readme the `or` makes otherwise
ProfileOutcome(status_code, profile_email) ==
    IF status_code # 200 THEN [readme |-> FALSE, email |-> None]
    ELSE IF Truthy(profile_email) THEN [readme |-> FALSE, email |-> profile_email]
    ELSE [readme |-> TRUE, email |-> None]

\* mutant: without an e-mail the record is left in Running
update_fields_done_on_hit(e) ==
    [ScoutedEmail |-> IF Truthy(e) THEN e ELSE EmptyStr,
     Status |-> IF Truthy(e) THEN "Done" ELSE "Running"]

\* mutant: the finalizing patch sets the status alone
update_fields_status_only(e) == [Status |-> "Done"]

\* mutant: the finalizing patch puts the record back to Run
update_fields_back_to_run(e) ==
    [ScoutedEmail |-> IF Truthy(e) THEN e ELSE EmptyStr, Status |-> "Run"]

\* process_record: update_fields of the finalizing patch
update_fields(e) ==
    [ScoutedEmail |-> IF Truthy(e) THEN e ELSE EmptyStr, Status |-> "Done"]

\* mutant: the claim patch already writes Done
claim_fields_done == [Status |-> "Done"]

\* process_record: fields of the claim patch
claim_fields == [Status |-> "Running"]

\* mutant: the target record is posted whatever the lookup returned
ShouldCreateAlways(e) == TRUE

\* process_record: if email (a target record is posted)
ShouldCreate(e) == Truthy(e)

\* process_record: new_record
new_record(fields, e) ==
    [Name |-> fields.Name, Github |-> fields.GitHub, ScoutedEmail |-> e,
     RepoToLink |-> fields.RepoToLink,
     Check |-> "Update (Github Repo)"]

\* Airtable's PATCH: the named fields of the row are overwritten
ApplyPatch(row, fields) ==
    [f \in DOMAIN row |-> IF f \in DOMAIN fields THEN fields[f] ELSE row[f]]

\* get_airtable_records: the response's records on 200, else []
get_airtable_records(status_code, rows) ==
    IF status_code # 200 THEN << >> ELSE rows

(* ------------------------------- Init ---------------------------------- *)
\* main: api_keys = f.read().split(',') has at least one element;
\* GitHubApiHandler.__init__; the source table holds any rows
Init ==
    /\ api_keys \in {[i \in 1..n |-> i] : n \in 1..MaxKeys}
    /\ current_key_index = 0
    /\ request_count = 0
    /\ \E gh \in [Rows -> GitHubValues], st \in [Rows -> StatusValues] :
           table = [i \in Rows |-> Row(i, gh[i], st[i])]
    /\ target = {}
    /\ records = << >>
    /\ mpc = "fetch"
    /\ submitted = 0
    /\ collected = {}
    /\ caught = {}
    /\ pc = [w \in Rows |-> "none"]
    /\ rem = [w \in Rows |-> NoProbe]
    /\ tmp = [w \in Rows |-> 0]
    /\ email = [w \in Rows |-> None]
    /\ lookup = [w \in Rows |-> NoLookup]
    /\ history = [i \in Rows |-> <<table[i].Status>>]
    /\ patches = [w \in Rows |-> << >>]
    /\ posts = [w \in Rows |-> << >>]
    /\ text = << >>
    /\ matched = None
    /\ faults = 0

(* ------------------------------- main ---------------------------------- *)
Tasks == 1..Len(records)
\* a task that ended with an exception: raised by a call of the lookup, or by
\* a call to Airtable
FailedPcs == {"failed_lookup", "failed_airtable"}
Failed == {w \in Rows : pc[w] \in FailedPcs}
Finished == {w \in Rows : pc[w] = "done"} \cup Failed
InPool == {w \in Rows : pc[w] \notin {"none", "queued", "done"} \cup FailedPcs}

\* mutant: future.result() outside any try
CatchesNothing == FALSE

\* main: `except Exception` around future.result()
Catches == TRUE

\* records = get_airtable_records(...).  The filterByFormula of the URL is
\* evaluated by Airtable; the client takes whatever rows the response carries,
\* and process_record checks each record again.  The response here carries
\* every row, so that the rows the formula would drop are skipped by that
\* check in the task rather than by the server.
Fetch ==
    /\ mpc = "fetch"
    /\ \E status_code \in Statuses :
          records' = get_airtable_records(status_code, [i \in Rows |-> table[i]])
    /\ mpc' = "submit"
    /\ UNCHANGED <<handler, airtable, submitted, collected, caught, pc, locals, http>>

\* requests.get raises in get_airtable_records: main ends with the exception
FetchError ==
    /\ mpc = "fetch"
    /\ mpc' = "crashed"
    /\ UNCHANGED <<handler, airtable, records, submitted, collected, caught, pc,
                   locals, http>>

\* executor.submit(process_record, ..., record, ...) for the next record
Submit ==
    /\ mpc = "submit"
    /\ submitted < Len(records)
    /\ submitted' = submitted + 1
    /\ pc' = [pc EXCEPT ![submitted + 1] = "queued"]
    /\ UNCHANGED <<handler, airtable, records, mpc, collected, caught, locals, http>>

\* the list of futures is complete: main enters as_completed
AllSubmitted ==
    /\ mpc = "submit"
    /\ submitted = Len(records)
    /\ mpc' = "collect"
    /\ UNCHANGED <<handler, airtable, records, submitted, collected, caught, pc,
                   locals, http>>

\* for future in as_completed(futures): future.result(), an exception caught
Collect(w) ==
    /\ mpc = "collect"
    /\ w \in Finished \ collected
    /\ collected' = collected \cup {w}
    /\ caught' = IF w \in Failed /\ Catches THEN caught \cup {w} ELSE caught
    /\ mpc' = IF w \in Failed /\ ~Catches THEN "crashed" ELSE mpc
    /\ UNCHANGED <<handler, airtable, records, submitted, pc, locals, http>>

\* mutant: main returns without waiting for the futures
FinishEarly ==
    /\ mpc = "collect"
    /\ mpc' = "done"
    /\ UNCHANGED <<handler, airtable, records, submitted, collected, caught, pc,
                   locals, http>>

\* as_completed is exhausted and the executor has shut down: main returns
Finish ==
    /\ mpc = "collect"
    /\ collected = Tasks
    /\ mpc' = "done"
    /\ UNCHANGED <<handler, airtable, records, submitted, collected, caught, pc,
                   locals, http>>

(* --------------------------- process_record ----------------------------- *)
\* update_airtable_records on the source table: the PATCH is issued, and the
\* row changes when Airtable answers 200
update_airtable_records(w, fields, status_code) ==
    LET i == records[w].id
        row == IF status_code = 200 THEN ApplyPatch(table[i], fields) ELSE table[i]
    IN  /\ patches' = [patches EXCEPT ![w] =
                          Append(@, [fields |-> fields, status_code |-> status_code])]
        /\ table' = [table EXCEPT ![i] = row]
        /\ history' = [history EXCEPT ![i] =
                          IF row.Status = table[i].Status THEN @
                          ELSE Append(@, row.Status)]

\* create_airtable_records on the target table: the POST is issued, and the
\* record exists when Airtable answers 200
create_airtable_records(w, fields, status_code) ==
    /\ posts' = [posts EXCEPT ![w] =
                      Append(@, [fields |-> fields, status_code |-> status_code])]
    /\ target' = IF status_code = 200 THEN target \cup {fields} ELSE target

\* the environment's answer to one HTTP call of a task, within the budget
Answer(status_code) ==
    /\ faults + (IF status_code = 200 THEN 0 ELSE 1) <= MaxFaults
    /\ faults' = faults + (IF status_code = 200 THEN 0 ELSE 1)

\* mutant: the lookup is entered first, the claim patch left out
StartLookupFirst(w) ==
    /\ pc[w] = "queued"
    /\ pc' = [pc EXCEPT ![w] = IF Eligible(records[w]) THEN "probe" ELSE "done"]
    /\ UNCHANGED <<handler, airtable, driver, locals, http>>

\* a pool thread takes the task: process_record up to its guard
Start(w) ==
    /\ pc[w] = "queued"
    /\ Cardinality(InPool) < max_workers
    /\ pc' = [pc EXCEPT ![w] = IF Eligible(records[w]) THEN "claim" ELSE "done"]
    /\ UNCHANGED <<handler, airtable, driver, locals, http>>

\* mutant: the task returns when the claim patch is refused
ClaimPatchChecked(w) ==
    /\ pc[w] = "claim"
    /\ \E status_code \in Statuses :
          /\ Answer(status_code)
          /\ update_airtable_records(w, claim_fields, status_code)
          /\ pc' = [pc EXCEPT ![w] = IF status_code = 200 THEN "probe" ELSE "done"]
    /\ UNCHANGED <<handler, target, posts, driver, locals, extractor>>

\* the claim patch: Status -> Running
ClaimPatch(w) ==
    /\ pc[w] = "claim"
    /\ \E status_code \in Statuses :
          /\ Answer(status_code)
          /\ update_airtable_records(w, claim_fields, status_code)
    /\ pc' = [pc EXCEPT ![w] = "probe"]
    /\ UNCHANGED <<handler, target, posts, driver, locals, extractor>>

(* ---------------------------- GitHubApiHandler -------------------------- *)
\* check_and_switch_key: get_remaining_requests under the active credential,
\* then the comparison with the threshold
Probe(w) ==
    /\ pc[w] = "probe"
    /\ \E status_code \in Statuses, remaining \in Remaining :
          /\ Answer(status_code)
          /\ LET remaining_requests == get_remaining_requests(status_code, remaining)
             IN  /\ rem' = [rem EXCEPT ![w] = [status_code |-> status_code,
                                               remaining |-> remaining_requests,
                                               key |-> current_key_index]]
                 /\ pc' = [pc EXCEPT ![w] = IF ShouldSwitch(remaining_requests)
                                            THEN "rot_load" ELSE "headers"]
    /\ UNCHANGED <<handler, airtable, driver, tmp, email, lookup, extractor>>

\* mutant: the switch is made only if the credential observed is still the
\* active one (check and switch as one step)
RotateLoadRechecked(w) ==
    /\ pc[w] = "rot_load"
    /\ tmp' = [tmp EXCEPT ![w] = IF current_key_index = rem[w].key
                                 THEN current_key_index ELSE 0]
    /\ rem' = [rem EXCEPT ![w] = IF current_key_index = rem[w].key THEN @ ELSE NoProbe]
    /\ pc' = [pc EXCEPT ![w] = IF current_key_index = rem[w].key
                               THEN "rot_store" ELSE "headers"]
    /\ UNCHANGED <<handler, airtable, driver, email, lookup, http>>

\* self.current_key_index = (self.current_key_index + 1) % len(...): the read
RotateLoad(w) ==
    /\ pc[w] = "rot_load"
    /\ tmp' = [tmp EXCEPT ![w] = current_key_index]
    /\ pc' = [pc EXCEPT ![w] = "rot_store"]
    /\ UNCHANGED <<handler, airtable, driver, rem, email, lookup, http>>

\* ... the write
RotateStore(w) ==
    /\ pc[w] = "rot_store"
    /\ current_key_index' = NextKeyIndex(tmp[w], api_keys)
    /\ tmp' = [tmp EXCEPT ![w] = 0]
    /\ pc' = [pc EXCEPT ![w] = "reset"]
    /\ UNCHANGED <<api_keys, request_count, airtable, driver, rem, email,
                   lookup, http>>

\* mutant: after a switch the quota of the new credential is probed again
ResetCountAndRecheck(w) ==
    /\ pc[w] = "reset"
    /\ request_count' = 0
    /\ rem' = [rem EXCEPT ![w] = NoProbe]
    /\ pc' = [pc EXCEPT ![w] = "probe"]
    /\ UNCHANGED <<api_keys, current_key_index, airtable, driver, tmp, email,
                   lookup, http>>

\* self.request_count = 0; check_and_switch_key returns
ResetCount(w) ==
    /\ pc[w] = "reset"
    /\ request_count' = 0
    /\ rem' = [rem EXCEPT ![w] = NoProbe]
    /\ pc' = [pc EXCEPT ![w] = "headers"]
    /\ UNCHANGED <<api_keys, current_key_index, airtable, driver, tmp, email,
                   lookup, http>>

\* get_user_info_from_github_api: headers = self.get_headers()
GetHeaders(w) ==
    /\ pc[w] = "headers"
    /\ rem' = [rem EXCEPT ![w] = NoProbe]
    /\ pc' = [pc EXCEPT ![w] = "inc_load"]
    /\ UNCHANGED <<handler, airtable, driver, tmp, email, lookup, http>>

\* self.request_count += 1: the read
IncLoad(w) ==
    /\ pc[w] = "inc_load"
    /\ tmp' = [tmp EXCEPT ![w] = request_count]
    /\ pc' = [pc EXCEPT ![w] = "inc_store"]
    /\ UNCHANGED <<handler, airtable, driver, rem, email, lookup, http>>

\* ... the write
IncStore(w) ==
    /\ pc[w] = "inc_store"
    /\ request_count' = tmp[w] + 1
    /\ tmp' = [tmp EXCEPT ![w] = 0]
    /\ pc' = [pc EXCEPT ![w] = "profile"]
    /\ UNCHANGED <<api_keys, current_key_index, airtable, driver, rem, email,
                   lookup, http>>

\* GET /users/{username} and what the lookup does with the response
ProfileFetch(w) ==
    /\ pc[w] = "profile"
    /\ \E status_code \in Statuses, profile_email \in ProfileEmails :
          /\ Answer(status_code)
          /\ status_code # 200 => profile_email = EmptyStr
          /\ LET out == ProfileOutcome(status_code, profile_email)
             IN  /\ lookup' = [lookup EXCEPT ![w].profile = status_code,
                                             ![w].profile_email = profile_email]
                 /\ email' = [email EXCEPT ![w] = out.email]
                 /\ pc' = [pc EXCEPT ![w] = IF out.readme THEN "readme" ELSE "finalize"]
    /\ UNCHANGED <<handler, airtable, driver, rem, tmp, extractor>>

\* mutant: the body is searched whatever the status of the answer
get_email_from_readme_any_status(status_code, body) == extract_email(body)

\* get_email_from_readme: extract_email(response.text) on 200, else None
get_email_from_readme(status_code, body) ==
    IF status_code = 200 THEN extract_email(body) ELSE None

\* the README fetch, whose result the lookup returns
ReadmeFetch(w) ==
    /\ pc[w] = "readme"
    /\ \E status_code \in Statuses, body \in ReadmeTexts :
          /\ Answer(status_code)
          /\ lookup' = [lookup EXCEPT ![w].readme = status_code]
          /\ email' = [email EXCEPT ![w] = get_email_from_readme(status_code, body)]
    /\ pc' = [pc EXCEPT ![w] = "finalize"]
    /\ UNCHANGED <<handler, airtable, driver, rem, tmp, extractor>>

(* --------------------- process_record after the lookup ------------------ *)
\* the finalizing patch: Scouted Email and Status -> Done, then `if email`
FinalPatch(w) ==
    /\ pc[w] = "finalize"
    /\ \E status_code \in Statuses :
          /\ Answer(status_code)
          /\ update_airtable_records(w, update_fields(email[w]), status_code)
    /\ lookup' = [lookup EXCEPT ![w] = NoLookup]
    /\ pc' = [pc EXCEPT ![w] = IF ShouldCreate(email[w]) THEN "create" ELSE "done"]
    /\ UNCHANGED <<handler, target, posts, driver, rem, tmp, email, extractor>>

\* create_airtable_records(..., [new_record]); process_record returns
Create(w) ==
    /\ pc[w] = "create"
    /\ \E status_code \in Statuses :
          /\ Answer(status_code)
          /\ create_airtable_records(w, new_record(records[w], email[w]), status_code)
    /\ pc' = [pc EXCEPT ![w] = "done"]
    /\ UNCHANGED <<handler, table, history, patches, driver, locals, extractor>>

\* positions at which the task is inside an HTTP call: of the lookup, to Airtable
LookupPcs == {"probe", "profile", "readme"}
AirtablePcs == {"claim", "finalize", "create"}

\* the HTTP call raises (connection error, retries exhausted, malformed body):
\* nothing in process_record catches it, the future holds the exception
NetworkError(w) ==
    /\ pc[w] \in LookupPcs \cup AirtablePcs
    /\ faults < MaxFaults
    /\ faults' = faults + 1
    /\ pc' = [pc EXCEPT ![w] = IF pc[w] \in LookupPcs THEN "failed_lookup"
                               ELSE "failed_airtable"]
    /\ rem' = [rem EXCEPT ![w] = NoProbe]
    /\ lookup' = [lookup EXCEPT ![w] = NoLookup]
    /\ UNCHANGED <<handler, airtable, driver, tmp, email, extractor>>

Worker(w) ==
    \/ Start(w)
    \/ ClaimPatch(w)
    \/ Probe(w)
    \/ RotateLoad(w)
    \/ RotateStore(w)
    \/ ResetCount(w)
    \/ GetHeaders(w)
    \/ IncLoad(w)
    \/ IncStore(w)
    \/ ProfileFetch(w)
    \/ ReadmeFetch(w)
    \/ FinalPatch(w)
    \/ Create(w)
    \/ NetworkError(w)

Next ==
    \/ Fetch
    \/ FetchError
    \/ Submit
    \/ AllSubmitted
    \/ Finish
    \/ \E w \in Rows : Collect(w)
    \/ \E w \in Rows : Worker(w)

Spec == Init /\ [][Next]_vars

\* main's thread runs on, and the pool runs every task it has taken: a call to
\* the network returns or raises
MainStep == Fetch \/ FetchError \/ Submit \/ AllSubmitted \/ Finish
                \/ \E w \in Rows : Collect(w)

FairSpec ==
    /\ Init
    /\ [][Next]_vars
    /\ WF_vars(MainStep)
    /\ \A w \in Rows : WF_vars(Worker(w))

(* ----------------------- the extractor on its own ----------------------- *)
\* characters put around a core: a letter, a word character that is no letter,
\* a dot, the bar, two wrapping characters and a blank
AffixChars == {"a", "_", ".", "|", "<", ">", " "}

RECURSIVE SeqsUpTo(_, _)
SeqsUpTo(S, n) ==
    IF n = 0 THEN {<< >>}
    ELSE LET shorter == SeqsUpTo(S, n - 1)
         IN  shorter \cup {Append(u, c) : u \in shorter, c \in S}

Affixes == SeqsUpTo(AffixChars, MaxAffix)

\* cores: nothing, one address, an address with a one-letter top-level
\* segment, two addresses
Cores ==
    { << >>,
      <<"j", "@", "e", ".", "c", "o">>,
      <<"j", "@", "e", ".", "c">>,
      <<"j", "@", "e", ".", "c", "o", " ", "x", "@", "b", ".", "i", "o">> }

Texts == {pre \o core \o post : pre \in Affixes, core \in Cores, post \in Affixes}

InitExtract ==
    /\ api_keys = <<1>>
    /\ current_key_index = 0
    /\ request_count = 0
    /\ table = [i \in Rows |-> Row(i, "", "")]
    /\ target = {}
    /\ records = << >>
    /\ mpc = "text"
    /\ submitted = 0
    /\ collected = {}
    /\ caught = {}
    /\ pc = [w \in Rows |-> "none"]
    /\ rem = [w \in Rows |-> NoProbe]
    /\ tmp = [w \in Rows |-> 0]
    /\ email = [w \in Rows |-> None]
    /\ lookup = [w \in Rows |-> NoLookup]
    /\ history = [i \in Rows |-> <<"">>]
    /\ patches = [w \in Rows |-> << >>]
    /\ posts = [w \in Rows |-> << >>]
    /\ text \in Texts
    /\ matched = None
    /\ faults = 0

\* a call extract_email(text)
Extract ==
    /\ mpc = "text"
    /\ matched' = extract_email(text)
    /\ mpc' = "extracted"
    /\ UNCHANGED <<handler, airtable, records, submitted, collected, caught, pc,
                   locals, text, faults>>

NextExtract == Extract

SpecExtract == InitExtract /\ [][NextExtract]_vars

(* ------------------------------- claims --------------------------------- *)
\* what this system has created in the target table for task w
TargetOf(w) == {r \in target : r.Name = records[w].Name}
\* the value the finalizing patch writes for a lookup result
Scouted(e) == IF Truthy(e) THEN e ELSE EmptyStr
\* the Status values of the patches of w that Airtable accepted, in order
RECURSIVE AcceptedStatuses(_)
AcceptedStatuses(log) ==
    IF log = << >> THEN << >>
    ELSE IF Head(log).status_code = 200
         THEN <<Head(log).fields.Status>> \o AcceptedStatuses(Tail(log))
         ELSE AcceptedStatuses(Tail(log))

\* C1: a record whose status is not Run, or whose GitHub field is empty or
\* missing, gets no patch, starts no lookup (its task is never at a position
\* of the lookup, and a run with no eligible record leaves the rotator as
\* constructed), gets no target record, and its row stays as fetched.
C1_IneligibleUntouched ==
    /\ \A w \in Tasks :
          ~(records[w].GitHub # "" /\ records[w].Status = "Run") =>
              /\ patches[w] = << >>
              /\ posts[w] = << >>
              /\ TargetOf(w) = {}
              /\ pc[w] \in {"none", "queued", "done"}
              /\ table[records[w].id] = records[w]
              /\ history[records[w].id] = <<records[w].Status>>
    /\ (\A w \in Tasks : ~(records[w].GitHub # "" /\ records[w].Status = "Run")) =>
          /\ current_key_index = 0
          /\ request_count = 0

\* a run that has finished with both kinds of ineligible record processed
C1_Witness ==
    /\ mpc = "done"
    /\ \E w \in Tasks : records[w].GitHub = "" /\ records[w].Status = "Run"
                        /\ pc[w] = "done"
    /\ \E w \in Tasks : records[w].GitHub # "" /\ records[w].Status # "Run"
                        /\ pc[w] = "done"

\* C2 as stated: a record whose workflow completed has held the statuses
\* Run, Running, Done in that order, with exactly two patch calls, the first
\* setting Status to Running and the second setting Status to Done.
C2_Original ==
    \A w \in Tasks :
        (Eligible(records[w]) /\ pc[w] = "done") =>
            /\ Len(patches[w]) = 2
            /\ patches[w][1].fields.Status = "Running"
            /\ patches[w][2].fields.Status = "Done"
            /\ history[records[w].id] = <<"Run", "Running", "Done">>

\* C2 (amended): a record whose workflow completed had exactly two patch
\* calls, the first setting only Status to Running and the second setting
\* Status to Done with the Scouted Email, whatever the lookup returned; the
\* statuses its row has held are Run followed by those of the patches
\* Airtable answered with 200, so Run, Running, Done when both were accepted.
C2_TwoPatches ==
    \A w \in Tasks :
        (Eligible(records[w]) /\ pc[w] = "done") =>
            /\ Len(patches[w]) = 2
            /\ patches[w][1].fields = [Status |-> "Running"]
            /\ patches[w][2].fields =
                  [ScoutedEmail |-> Scouted(email[w]), Status |-> "Done"]
            /\ history[records[w].id] = <<"Run">> \o AcceptedStatuses(patches[w])
            /\ (\A k \in 1..2 : patches[w][k].status_code = 200) =>
                  history[records[w].id] = <<"Run", "Running", "Done">>

\* two completed workflows, one with and one without an e-mail, both having
\* gone Run, Running, Done
C2_Witness ==
    \E w, v \in Tasks :
        /\ pc[w] = "done" /\ pc[v] = "done"
        /\ Truthy(email[w]) /\ ~Truthy(email[v])
        /\ history[records[w].id] = <<"Run", "Running", "Done">>
        /\ history[records[v].id] = <<"Run", "Running", "Done">>
        /\ Len(patches[w]) = 2 /\ Len(patches[v]) = 2

\* C3 as stated: for an eligible record that was processed, a target record
\* is created if and only if its lookup returned a non-empty e-mail.
C3_Original ==
    \A w \in Tasks :
        (Eligible(records[w]) /\ pc[w] = "done") =>
            (TargetOf(w) # {} <=> Truthy(email[w]))

\* C3 (amended): a create request is never issued for a record whose lookup
\* returned no e-mail; for an eligible record whose workflow ran to its end,
\* exactly one create request was issued if the lookup returned a non-empty
\* e-mail and none otherwise, and the target record exists if and only if
\* that request was answered with 200.
C3_CreateIffEmail ==
    \A w \in Tasks :
        /\ posts[w] # << >> =>
              /\ Eligible(records[w])
              /\ Truthy(email[w])
              /\ posts[w] = <<[fields |-> new_record(records[w], email[w]),
                               status_code |-> posts[w][1].status_code]>>
        /\ TargetOf(w) =
              {posts[w][k].fields :
                  k \in {j \in DOMAIN posts[w] : posts[w][j].status_code = 200}}
        /\ (Eligible(records[w]) /\ pc[w] = "done") =>
              (Len(posts[w]) = 1 <=> Truthy(email[w]))

\* a finished run with a record whose e-mail was found and whose target
\* record exists, and a record without e-mail and without target record
C3_Witness ==
    \E w, v \in Tasks :
        /\ pc[w] = "done" /\ pc[v] = "done"
        /\ Eligible(records[w]) /\ Eligible(records[v])
        /\ Truthy(email[w]) /\ TargetOf(w) # {}
        /\ ~Truthy(email[v]) /\ TargetOf(v) = {} /\ posts[v] = << >>

\* C4: main never ends with a task's exception: once it has finished, it has
\* retrieved every future and caught the exception of every failed task;
\* every eligible task that did not itself raise has issued its finalizing
\* patch with its own lookup result; and when the one thing that went wrong
\* in the run is an exception in one task's lookup, every other eligible
\* record is Done in the table with its own Scouted Email.
C4_FailureIsolated ==
    /\ mpc = "crashed" => submitted = 0
    /\ mpc = "done" =>
          /\ collected = Tasks
          /\ caught = Failed
          /\ \A v \in Tasks :
                (Eligible(records[v]) /\ v \notin Failed) =>
                    /\ pc[v] = "done"
                    /\ Len(patches[v]) = 2
                    /\ patches[v][2].fields = update_fields(email[v])
          /\ \A w \in Tasks :
                (pc[w] = "failed_lookup" /\ faults = 1) =>
                    \A v \in Tasks \ {w} :
                        Eligible(records[v]) =>
                            /\ pc[v] = "done"
                            /\ table[records[v].id].Status = "Done"
                            /\ table[records[v].id].ScoutedEmail = Scouted(email[v])
                            /\ history[records[v].id] = <<"Run", "Running", "Done">>

\* a finished run in which one task raised during its lookup, the exception
\* was caught, and another eligible record is Done with an e-mail
C4_Witness ==
    /\ mpc = "done"
    /\ \E w, v \in Tasks :
          /\ pc[w] = "failed_lookup" /\ w \in caught
          /\ Eligible(records[v]) /\ pc[v] = "done"
          /\ table[records[v].id].Status = "Done"
          /\ Truthy(table[records[v].id].ScoutedEmail)

\* C5: a check_and_switch_key call whose probe returned less than 10 goes on
\* to write current_key_index with the index it read advanced by one position
\* modulo the number of credentials (a different index when there are two or
\* more) and then request_count with 0; a call whose probe returned 10 or more
\* returns with index and counter as they were.
C5_SwitchBelowThreshold ==
    [][\A w \in Rows :
          /\ (pc[w] = "probe" /\ pc'[w] \in {"rot_load", "headers"}) =>
                /\ (pc'[w] = "rot_load") <=> (rem'[w].remaining < 10)
                /\ (pc'[w] = "headers") <=> (rem'[w].remaining >= 10)
                /\ current_key_index' = current_key_index
                /\ request_count' = request_count
          /\ (pc[w] = "rot_load" /\ pc'[w] # "rot_load") =>
                /\ pc'[w] = "rot_store"
                /\ tmp'[w] = current_key_index
                /\ current_key_index' = current_key_index
                /\ request_count' = request_count
          /\ (pc[w] = "rot_store" /\ pc'[w] # "rot_store") =>
                /\ pc'[w] = "reset"
                /\ current_key_index' =
                      (IF tmp[w] + 1 = Len(api_keys) THEN 0 ELSE tmp[w] + 1)
                /\ Len(api_keys) >= 2 => current_key_index' # tmp[w]
                /\ request_count' = request_count
          /\ (pc[w] = "reset" /\ pc'[w] # "reset") =>
                /\ pc'[w] = "headers"
                /\ request_count' = 0
                /\ current_key_index' = current_key_index
    ]_vars

\* with two or more credentials: one call has switched to the next credential
\* and is about to reset the counter, another has returned on a probe of 10
C5_Witness ==
    /\ Len(api_keys) >= 2
    /\ \E w, v \in Rows :
          /\ pc[w] = "reset"
          /\ current_key_index = 1
          /\ pc[v] = "headers"
          /\ rem[v].status_code = 200
          /\ rem[v].remaining >= 10

\* C6: in every reachable state, whatever the interleaving of the workers'
\* lookups, current_key_index is an index of the credential list, also when
\* the list has one element.
C6_IndexValid ==
    /\ current_key_index \in 0..(Len(api_keys) - 1)
    /\ \A w \in Rows : pc[w] = "rot_store" => tmp[w] \in 0..(Len(api_keys) - 1)

\* one credential, and two workers inside the switch at once: one has written
\* the index, the other has read it and not yet written
C6_Witness ==
    /\ Len(api_keys) = 1
    /\ \E w, v \in Rows :
          /\ pc[w] = "reset"
          /\ pc[v] = "rot_store"

\* C7: when the profile fetch is answered 200 with a non-empty e-mail, the
\* lookup returns that e-mail and issues no README fetch; the README fetch is
\* issued only after a profile fetch answered 200 whose e-mail is empty or
\* absent, and it is issued in that case.
C7_ProfileEmailFirst ==
    \A w \in Rows :
        /\ (lookup[w].profile = 200 /\ lookup[w].profile_email # EmptyStr) =>
              /\ pc[w] = "finalize"
              /\ email[w] = lookup[w].profile_email
              /\ lookup[w].readme = 0
        /\ (pc[w] = "readme" \/ lookup[w].readme # 0) =>
              /\ lookup[w].profile = 200
              /\ lookup[w].profile_email = EmptyStr
        /\ (lookup[w].profile = 200 /\ lookup[w].profile_email = EmptyStr) =>
              (pc[w] = "readme" \/ lookup[w].readme # 0)

\* one lookup has returned the profile's e-mail without a README fetch,
\* another has fetched the README of a profile without e-mail
C7_Witness ==
    \E w, v \in Rows :
        /\ pc[w] = "finalize"
        /\ lookup[w].profile = 200
        /\ lookup[w].profile_email # EmptyStr
        /\ email[w] = lookup[w].profile_email
        /\ lookup[w].readme = 0
        /\ lookup[v].profile = 200
        /\ lookup[v].profile_email = EmptyStr
        /\ lookup[v].readme = 200

\* C8: when the profile fetch is answered with a status other than 200, the
\* lookup returns None ("no email found") and no README fetch is attempted.
C8_ProfileFailureNoReadme ==
    \A w \in Rows :
        (lookup[w].profile # 0 /\ lookup[w].profile # 200) =>
            /\ email[w] = None
            /\ lookup[w].readme = 0
            /\ pc[w] = "finalize"

\* a lookup whose profile fetch was answered 404 has returned
C8_Witness ==
    \E w \in Rows :
        /\ lookup[w].profile = 404
        /\ pc[w] = "finalize"
        /\ email[w] = None

\* C9: a rate-limit query answered with a status other than 200 makes
\* get_remaining_requests return 0, and check_and_switch_key then takes the
\* branch of an exhausted credential: it writes the next index and resets the
\* counter, with nothing in its state telling the failed probe from a quota
\* of zero.
C9_FailedProbeSwitches ==
    [][\A w \in Rows :
          /\ (pc[w] = "probe" /\ pc'[w] \in {"rot_load", "headers"}
                /\ rem'[w].status_code # 200) =>
                /\ rem'[w].remaining = 0
                /\ pc'[w] = "rot_load"
          /\ (pc[w] = "rot_load" /\ pc'[w] # "rot_load") =>
                /\ pc'[w] = "rot_store"
                /\ tmp'[w] = current_key_index
          /\ (pc[w] = "rot_store" /\ pc'[w] # "rot_store") =>
                /\ pc'[w] = "reset"
                /\ current_key_index' = (tmp[w] + 1) % Len(api_keys)
          /\ (pc[w] = "reset" /\ pc'[w] # "reset") =>
                /\ pc'[w] = "headers"
                /\ request_count' = 0
    ]_vars

\* a probe answered 404 has been taken for a quota of zero and the call is in
\* the switching branch, with two credentials to switch between and a counter
\* another lookup has already incremented
C9_Witness ==
    /\ Len(api_keys) >= 2
    /\ request_count > 0
    /\ \E w \in Rows :
          /\ rem[w].status_code = 404
          /\ rem[w].remaining = 0
          /\ pc[w] = "rot_load"

\* a well-formed e-mail address: a local part, "@", a domain, ".", and a
\* top-level segment of two or more letters
WellFormed(u) ==
    \E a \in 2..Len(u), d \in 3..Len(u) :
        /\ u[a] = "@"
        /\ u[d] = "."
        /\ a + 1 < d
        /\ d + 2 <= Len(u)
        /\ \A k \in 1..(a - 1) : u[k] \in LocalChars
        /\ \A k \in (a + 1)..(d - 1) : u[k] \in DomainChars
        /\ \A k \in (d + 1)..Len(u) : u[k] \in Letters

\* the occurrences of well-formed addresses in t, each standing between word
\* boundaries, as <<first position, last position>>
Occurrences(t) ==
    {o \in (1..Len(t)) \X (1..Len(t)) :
        /\ o[1] <= o[2]
        /\ Boundary(t, o[1])
        /\ Boundary(t, o[2] + 1)
        /\ WellFormed(SubSeq(t, o[1], o[2]))}

\* the occurrences that start first in document order
FirstOccurrences(t) ==
    {o \in Occurrences(t) : \A q \in Occurrences(t) : o[1] <= q[1]}

\* C10 as stated: for a text that contains a well-formed address, possibly
\* wrapped in quote or bracket characters, extract_email returns the first
\* such address of the text in document order, the wrapping characters removed.
C10_Original ==
    (mpc = "extracted" /\ Occurrences(text) # {}) =>
        \E o \in FirstOccurrences(text) :
            matched = Strip(SubSeq(text, o[1], o[2]), StripChars)

\* positions of a task inside get_user_info_from_github_api
LookupFlow ==
    {"probe", "rot_load", "rot_store", "reset", "headers", "inc_load",
     "inc_store", "profile", "readme"}

\* where task w stands against what it has issued so far
StepsInOrder(w) ==
    /\ pc[w] \in {"none", "queued", "claim"} =>
          /\ patches[w] = << >>
          /\ posts[w] = << >>
          /\ lookup[w] = NoLookup
    /\ pc[w] \in LookupFlow \cup {"failed_lookup", "finalize"} =>
          /\ Len(patches[w]) = 1
          /\ patches[w][1].fields = [Status |-> "Running"]
          /\ posts[w] = << >>
    /\ pc[w] = "finalize" => lookup[w].profile # 0
    /\ Len(patches[w]) = 2 =>
          /\ pc[w] \in {"create", "done", "failed_airtable"}
          /\ patches[w][1].fields = [Status |-> "Running"]
          /\ patches[w][2].fields.Status = "Done"
          /\ DOMAIN patches[w][2].fields = {"ScoutedEmail", "Status"}
    /\ posts[w] # << >> =>
          /\ Len(patches[w]) = 2
          /\ Len(posts[w]) = 1
          /\ pc[w] = "done"
    /\ Len(patches[w]) <= 2

\* C11: within one record's workflow the claim patch (Status=Running) comes
\* first, then the lookup, then the finalizing patch (Scouted Email and
\* Status=Done), then the optional create: the lookup is entered only by the
\* step that issues the claim patch, the finalizing patch is issued only by a
\* task whose lookup has returned, and the create only by a task that has
\* issued its finalizing patch.
C11_StepsInOrder ==
    [][\A w \in Rows :
          /\ StepsInOrder(w)'
          /\ (pc'[w] = "probe" /\ pc[w] # "probe") =>
                /\ pc[w] = "claim"
                /\ patches[w] = << >>
                /\ Len(patches'[w]) = 1
          /\ (Len(patches'[w]) = 2 /\ Len(patches[w]) # 2) =>
                /\ pc[w] = "finalize"
                /\ lookup[w].profile # 0
                /\ Len(patches[w]) = 1
                /\ posts[w] = << >>
          /\ (posts'[w] # posts[w]) =>
                /\ pc[w] = "create"
                /\ Len(patches[w]) = 2
                /\ posts[w] = << >>
    ]_vars

\* one workflow has gone through all four steps, another has issued its claim
\* patch and finalizing patch and stands before the create
C11_Witness ==
    \E w, v \in Rows :
        /\ pc[w] = "done"
        /\ Len(patches[w]) = 2
        /\ Len(posts[w]) = 1
        /\ pc[v] = "create"
        /\ Len(patches[v]) = 2
        /\ posts[v] = << >>

\* C12: main has finished only when every fetched record was dispatched and
\* every dispatched workflow has ended, normally or with an exception main has
\* caught; every fetched record is dispatched exactly once, in order, and no
\* task is ever dispatched again; and with every network call returning or
\* raising, main finishes once the fetch has returned (and ends in any case).
C12_DriverCompletes ==
    /\ [](mpc = "done" =>
            /\ submitted = Len(records)
            /\ collected = Tasks
            /\ caught = Failed
            /\ \A w \in Tasks : pc[w] \in {"done"} \cup FailedPcs)
    /\ [](\A w \in Rows : (pc[w] # "none") <=> (w \in 1..submitted))
    /\ [](submitted <= Len(records))
    /\ [][\A w \in Rows :
            /\ (pc'[w] = "queued" /\ pc[w] # "queued") =>
                  /\ pc[w] = "none"
                  /\ w = submitted + 1
                  /\ submitted' = w
                  /\ w \in Tasks
            /\ (pc[w] \notin {"none", "queued"}) => (pc'[w] \notin {"none", "queued"})
            /\ (pc[w] = "queued") => (pc'[w] # "none")
       ]_vars
    /\ (mpc = "submit") ~> (mpc = "done")
    /\ <>(mpc \in {"done", "crashed"})

\* main has finished a run in which every row was dispatched, one workflow
\* ended normally with its two patches and one with an exception of a call to
\* Airtable, which main caught
C12_Witness ==
    /\ mpc = "done"
    /\ submitted = NumRecords
    /\ \E w, v \in Tasks :
          /\ pc[w] = "done"
          /\ Len(patches[w]) = 2
          /\ pc[v] = "failed_airtable"
          /\ v \in caught
          /\ v \in collected

\* C13: check_and_switch_key does not look at the active credential again
\* between its probe and its switch: a worker holding an observation below 10
\* of credential k goes on to switch also when another worker has switched
\* away from k in the meantime, and then writes the index two positions after
\* k, which with two credentials is k again.
C13_SwitchNotAtomic ==
    [][\A v \in Rows :
          /\ (pc[v] = "rot_load" /\ pc'[v] # "rot_load"
                /\ current_key_index # rem[v].key) =>
                /\ rem[v].remaining < 10
                /\ pc'[v] = "rot_store"
                /\ tmp'[v] = current_key_index
                /\ rem'[v] = rem[v]
          /\ (pc[v] = "rot_store" /\ pc'[v] # "rot_store"
                /\ tmp[v] = (rem[v].key + 1) % Len(api_keys)) =>
                /\ pc'[v] = "reset"
                /\ current_key_index' = (rem[v].key + 2) % Len(api_keys)
                /\ Len(api_keys) = 2 => current_key_index' = rem[v].key
    ]_vars

\* two credentials; two workers have both probed credential 0, both were told
\* 9 requests remain, and both have switched, the second after the first: the
\* active index is 0 again
C13_Witness ==
    /\ Len(api_keys) = 2
    /\ \E w, v \in Rows :
          /\ w # v
          /\ pc[w] = "reset"
          /\ pc[v] = "reset"
          /\ rem[w].status_code = 200
          /\ rem[v].status_code = 200
          /\ rem[w].remaining < 10
          /\ rem[v].remaining < 10
          /\ rem[w].key = 0
          /\ rem[v].key = 0
          /\ current_key_index = 0

\* no patch of this system writes Run, and no row goes back: the statuses a
\* row has held are a start of Run, Running, Done, with Running possibly left out
NeverBackToRun ==
    /\ \A w \in Tasks : \A k \in DOMAIN patches[w] :
          patches[w][k].fields.Status \in {"Running", "Done"}
    /\ \A i \in Rows :
          history[i] \in {<<"Run">>, <<"Run", "Running">>, <<"Run", "Done">>,
                          <<"Run", "Running", "Done">>, <<"Done">>}

\* C14 as stated: the system never writes Run to a record, and every eligible
\* record whose workflow was started is Done in the end.
C14_Original ==
    /\ NeverBackToRun
    /\ mpc = "done" =>
          \A w \in Tasks :
              Eligible(records[w]) => table[records[w].id].Status = "Done"

\* C14 (amended): the system never writes Run to a record and no row's status
\* goes back; a lookup that has returned, with or without an e-mail, is
\* followed by the finalizing patch and never by a second lookup; when the run
\* has ended, every eligible record either had a call of its workflow raise
\* or had its finalizing patch with Status=Done issued, and a record whose
\* finalizing patch Airtable accepted is Done from then on.
C14_DoneUnlessRaised ==
    [][/\ NeverBackToRun'
       /\ \A w \in Rows :
             /\ (pc[w] = "finalize" /\ pc'[w] # "finalize") =>
                   \/ pc'[w] = "failed_airtable"
                   \/ /\ pc'[w] \in {"create", "done"}
                      /\ Len(patches'[w]) = 2
                      /\ patches'[w][2].fields.Status = "Done"
             /\ (pc[w] \in {"profile", "readme"} /\ pc'[w] # pc[w]) =>
                   pc'[w] \in {"readme", "finalize", "failed_lookup"}
             /\ (pc[w] = "readme") => (pc'[w] # "profile")
             /\ (Len(patches'[w]) = 2 /\ patches'[w][2].status_code = 200) =>
                   table'[records[w].id].Status = "Done"
       /\ (mpc' = "done") =>
             \A w \in 1..Len(records') :
                 Eligible(records'[w]) =>
                     \/ pc'[w] \in FailedPcs
                     \/ /\ pc'[w] = "done"
                        /\ Len(patches'[w]) = 2
                        /\ patches'[w][2].fields.Status = "Done"
    ]_vars

\* the run has ended; one record whose lookup returned no e-mail is Done
\* after Run and Running, another's workflow raised and it is not Done
C14_Witness ==
    /\ mpc = "done"
    /\ \E w, v \in Tasks :
          /\ Eligible(records[w])
          /\ pc[w] = "done"
          /\ ~Truthy(email[w])
          /\ history[records[w].id] = <<"Run", "Running", "Done">>
          /\ Eligible(records[v])
          /\ pc[v] \in FailedPcs
          /\ table[records[v].id].Status # "Done"

\* the lookup of w had its profile fetch or its README fetch answered non-200
LookupFailed(l) == l.profile \notin {0, 200} \/ l.readme \notin {0, 200}

\* C15: a lookup whose profile or README fetch is answered non-200 returns
\* None, and the finalizing patch of a record whose lookup failed is the very
\* patch of a record whose user shows no e-mail: empty Scouted Email and
\* Status Done, which is what the row holds once the patch is accepted; the
\* workflow ends there, with no create request and no target record.
C15_FailedLikeEmpty ==
    [][\A w \in Rows :
          /\ LookupFailed(lookup'[w]) => email'[w] = None
          /\ (pc[w] = "finalize" /\ pc'[w] \notin {"finalize", "failed_airtable"}
                /\ (LookupFailed(lookup[w]) \/ ~Truthy(email[w]))) =>
                /\ Len(patches'[w]) = 2
                /\ patches'[w][2].fields =
                      [ScoutedEmail |-> EmptyStr, Status |-> "Done"]
                /\ patches'[w][2].status_code = 200 =>
                      /\ table'[records[w].id].Status = "Done"
                      /\ table'[records[w].id].ScoutedEmail = EmptyStr
                /\ pc'[w] = "done"
                /\ posts'[w] = << >>
                /\ target' = target
                /\ TargetOf(w) = {}
    ]_vars

\* two credentials, still on the first (no switch was made, so the probe was
\* answered 200); one record is through its workflow with both patches
\* accepted, empty Scouted Email, Done, no target record; no other task has
\* started and nothing raised, and one call was answered non-200: the profile
\* or README fetch of that record's lookup
C15_Witness ==
    /\ Len(api_keys) = 2
    /\ current_key_index = 0
    /\ faults = 1
    /\ \E w \in Tasks :
          /\ Eligible(records[w])
          /\ pc[w] = "done"
          /\ Len(patches[w]) = 2
          /\ patches[w][1].status_code = 200
          /\ patches[w][2].status_code = 200
          /\ table[records[w].id].Status = "Done"
          /\ table[records[w].id].ScoutedEmail = EmptyStr
          /\ posts[w] = << >>
          /\ TargetOf(w) = {}
          /\ \A v \in Rows \ {w} : pc[v] \in {"none", "queued"}

\* C16: Scouted Email and Status=Done reach a record in one patch: a record
\* this system has set to Done (its finalizing patch was accepted) holds as
\* Scouted Email the e-mail its own lookup returned, or the empty string if
\* the lookup returned none; a record it has not set to Done holds the
\* Scouted Email it was fetched with; and no step changes one of the two
\* fields without the other being written by the same patch.
C16_DoneWithEmail ==
    [][\A w \in 1..Len(records') :
          LET i == records'[w].id
              set_done == /\ Len(patches'[w]) = 2
                          /\ patches'[w][2].status_code = 200
          IN  /\ set_done =>
                    /\ table'[i].Status = "Done"
                    /\ table'[i].ScoutedEmail =
                          (IF Truthy(email'[w]) THEN email'[w] ELSE EmptyStr)
                    /\ DOMAIN patches'[w][2].fields = {"ScoutedEmail", "Status"}
              /\ ~set_done =>
                    /\ table'[i].ScoutedEmail = records'[w].ScoutedEmail
                    /\ Eligible(records'[w]) => table'[i].Status # "Done"
              /\ (table'[i].ScoutedEmail # table[i].ScoutedEmail) =>
                    /\ table[i].Status # "Done"
                    /\ table'[i].Status = "Done"
    ]_vars

\* two records set to Done: one holds the e-mail its lookup returned, the
\* other, whose lookup returned none, the empty string
C16_Witness ==
    \E w, v \in Tasks :
        /\ Len(patches[w]) = 2 /\ patches[w][2].status_code = 200
        /\ Len(patches[v]) = 2 /\ patches[v][2].status_code = 200
        /\ Truthy(email[w])
        /\ table[records[w].id].Status = "Done"
        /\ table[records[w].id].ScoutedEmail = email[w]
        /\ email[v] = None
        /\ table[records[v].id].Status = "Done"
        /\ table[records[v].id].ScoutedEmail = EmptyStr

\* the tasks whose lookup has performed self.request_count += 1
Incremented ==
    {w \in Rows : \/ pc[w] \in {"profile", "readme", "finalize", "create"}
                  \/ (pc[w] = "done" /\ Len(patches[w]) > 0)}

\* C17 as stated: in a run in which no rotation occurs (and no call raises),
\* request_count always equals the number of lookups that have performed
\* their increment: no increment is lost, whatever the interleaving.
C17_Original ==
    [](\A w \in Rows : pc[w] \notin {"rot_load", "rot_store", "reset"} \cup FailedPcs)
        => [](request_count = Cardinality(Incremented))

\* C18: a task whose lookup raised after its claim patch was accepted has
\* issued no finalizing patch and no create request, and its record is
\* Running with the Scouted Email it was fetched with; the task does nothing
\* more, so this is the record's state when the run ends.
C18_RaisedLookupStaysRunning ==
    \A w \in Rows :
        (pc[w] = "failed_lookup" /\ patches[w][1].status_code = 200) =>
            /\ patches[w] = <<[fields |-> [Status |-> "Running"], status_code |-> 200]>>
            /\ posts[w] = << >>
            /\ TargetOf(w) = {}
            /\ table[records[w].id].Status = "Running"
            /\ table[records[w].id].ScoutedEmail = records[w].ScoutedEmail
            /\ history[records[w].id] = <<"Run", "Running">>
            /\ ~ENABLED Worker(w)

\* the run has ended, main has caught the exception of a lookup, and that
\* record is Running
C18_Witness ==
    /\ mpc = "done"
    /\ \E w \in Tasks :
          /\ pc[w] = "failed_lookup"
          /\ w \in caught
          /\ patches[w][1].status_code = 200
          /\ table[records[w].id].Status = "Running"
          /\ Len(patches[w]) = 1

\* C19: the answer to a patch call does not steer process_record.  A claim
\* patch that returned (accepted or refused) is followed by the lookup, and a
\* finalizing patch that returned is followed by the create request exactly
\* when the lookup found an e-mail.  A task that ran to its end after a
\* refused claim patch has issued both patches and the create request its
\* e-mail calls for, and when its finalizing patch was accepted its row went
\* from Run to Done without having held Running.
C19_PatchResultIgnored ==
    /\ [](\A w \in Tasks :
            (/\ Eligible(records[w])
             /\ pc[w] = "done"
             /\ patches[w][1].status_code # 200) =>
                /\ Len(patches[w]) = 2
                /\ patches[w][2].fields = update_fields(email[w])
                /\ Len(posts[w]) = (IF Truthy(email[w]) THEN 1 ELSE 0)
                /\ patches[w][2].status_code = 200 =>
                      /\ history[records[w].id] = <<"Run", "Done">>
                      /\ table[records[w].id].Status = "Done")
    /\ [][\A w \in Rows :
            /\ (pc[w] = "claim" /\ Len(patches'[w]) = 1) => pc'[w] = "probe"
            /\ (pc[w] = "finalize" /\ Len(patches'[w]) = 2) =>
                  pc'[w] = (IF Truthy(email[w]) THEN "create" ELSE "done")
       ]_vars

\* a record whose claim patch was refused is Done with the e-mail its lookup
\* found, its target record created, and has never been Running
C19_Witness ==
    \E w \in Tasks :
        /\ pc[w] = "done"
        /\ Len(patches[w]) = 2
        /\ patches[w][1].status_code # 200
        /\ history[records[w].id] = <<"Run", "Done">>
        /\ table[records[w].id].Status = "Done"
        /\ Truthy(email[w])
        /\ TargetOf(w) # {}

\* C20: a lookup probes the quota once and rotates at most once, and then
\* issues the profile fetch without waiting and without probing the
\* credential it rotated to.  On every step: a task comes to the probe only
\* from its claim patch, which it comes to only when a pool thread takes it;
\* it comes to the rotation only from the probe; and from the probe it moves
\* through the switch (if the probe was low) straight on to the headers, the
\* increment and the profile fetch, unless the probe raised.
C20_OneProbeOneRotation ==
    [][\A w \in Rows :
          /\ (pc'[w] = "claim" /\ pc[w] # "claim") => pc[w] = "queued"
          /\ (pc'[w] = "probe" /\ pc[w] # "probe") => pc[w] = "claim"
          /\ (pc'[w] = "rot_load" /\ pc[w] # "rot_load") => pc[w] = "probe"
          /\ (pc[w] = "probe" /\ pc'[w] # "probe") =>
                pc'[w] \in {"rot_load", "headers", "failed_lookup"}
          /\ (pc[w] = "rot_load" /\ pc'[w] # "rot_load") => pc'[w] = "rot_store"
          /\ (pc[w] = "rot_store" /\ pc'[w] # "rot_store") => pc'[w] = "reset"
          /\ (pc[w] = "reset" /\ pc'[w] # "reset") => pc'[w] = "headers"
          /\ (pc[w] = "headers" /\ pc'[w] # "headers") => pc'[w] = "inc_load"
          /\ (pc[w] = "inc_load" /\ pc'[w] # "inc_load") => pc'[w] = "inc_store"
          /\ (pc[w] = "inc_store" /\ pc'[w] # "inc_store") => pc'[w] = "profile"
    ]_vars

\* both credentials have been probed below 10 with every call answered 200:
\* one lookup found the first low, rotated and is at its profile fetch, the
\* other has found the second low as well
C20_Witness ==
    /\ Len(api_keys) = 2
    /\ faults = 0
    /\ \E w, v \in Rows :
          /\ pc[w] = "profile"
          /\ pc[v] = "rot_load"
          /\ rem[v].status_code = 200
          /\ rem[v].key = 1
          /\ rem[v].remaining < LowQuota

====
